---- MODULE Spec2Model ----
(***************************************************************************)
(* http-nebula (src/src/main.rs): a thread-per-connection static file      *)
(* server.  Strings and buffers are sequences of byte values, so that the  *)
(* request parser, the path sanitizer and the content-type resolver are    *)
(* computed on bytes as the Rust code computes them.                       *)
(***************************************************************************)
EXTENDS Integers, Sequences, FiniteSets, TLC

\* ------------------------------------------------------------------ bounds
\* length of the read buffer (main.rs:90 allocates [0; 1024]; scaled down)
MaxBuf == 24
\* longest request path enumerated over the alphabet { '/', '.', 'a' }
MaxPathLen == 3
\* longest file content enumerated over FileBytes
MaxFileLen == 2
\* number of connection slots of the dispatcher
MaxConns == 2
\* number of failed accepts the dispatcher's log is followed for
MaxAcceptErrs == 1

\* --------------------------------------------------------- byte constants
NUL == 0
HT == 9
LF == 10
CR == 13
SP == 32
Dot == 46
Slash == 47

\* "GET", "POST", "/", "/hello"
S_GET == <<71, 69, 84>>
S_POST == <<80, 79, 83, 84>>
S_ROOT == <<47>>
S_HELLO == <<47, 104, 101, 108, 108, 111>>
\* "." and ".."
S_DOT == <<46>>
S_DOTDOT == <<46, 46>>

\* response bodies (main.rs:125, 140, 142, 146)
ErrorReadingFile == <<69, 114, 114, 111, 114, 32, 114, 101, 97, 100, 105, 110, 103, 32, 102, 105, 108, 101>>
HelloRustacean == <<72, 101, 108, 108, 111, 44, 32, 82, 117, 115, 116, 97, 99, 101, 97, 110, 33>>
PageNotFound == <<80, 97, 103, 101, 32, 110, 111, 116, 32, 102, 111, 117, 110, 100>>
MethodNotAllowed == <<77, 101, 116, 104, 111, 100, 32, 110, 111, 116, 32, 97, 108, 108, 111, 119, 101, 100>>

\* status lines (main.rs:122, 124, 142, 146)
OK200 == "HTTP/1.1 200 OK"
ERR500 == "HTTP/1.1 500 INTERNAL SERVER ERROR"
NOTFOUND404 == "HTTP/1.1 404 NOT FOUND"
NOTALLOWED405 == "HTTP/1.1 405 METHOD NOT ALLOWED"
StatusLines == {OK200, ERR500, NOTFOUND404, NOTALLOWED405}

None == [some |-> FALSE]
Some(v) == [some |-> TRUE, val |-> v]

\* ------------------------------------------------------- sequence helpers
\* s[i..] and s[..i-1] in Rust slice notation
Drop(s, n) == SubSeq(s, n + 1, Len(s))
Take(s, n) == SubSeq(s, 1, n)

\* least index >= i with s[index] = b, or Len(s)+1 when there is none
RECURSIVE IndexOf(_, _, _)
IndexOf(s, b, i) ==
    IF i > Len(s) THEN Len(s) + 1
    ELSE IF s[i] = b THEN i
    ELSE IndexOf(s, b, i + 1)

\* greatest index with s[index] = b, or 0 when there is none
RECURSIVE LastIndexOf(_, _, _)
LastIndexOf(s, b, i) ==
    IF i < 1 THEN 0
    ELSE IF s[i] = b THEN i
    ELSE LastIndexOf(s, b, i - 1)

Contains(s, b) == \E i \in 1..Len(s) : s[i] = b

\* str::split(sep): the pieces between separators, empty pieces included;
\* the empty string splits into one empty piece
RECURSIVE Split(_, _)
Split(s, sep) ==
    LET i == IndexOf(s, sep, 1)
    IN  IF i > Len(s) THEN <<s>>
        ELSE <<Take(s, i - 1)>> \o Split(Drop(s, i), sep)

\* [&str]::join(sep)
RECURSIVE Join(_, _)
Join(parts, sep) ==
    IF Len(parts) = 0 THEN <<>>
    ELSE IF Len(parts) = 1 THEN parts[1]
    ELSE parts[1] \o <<sep>> \o Join(Tail(parts), sep)

\* ------------------------------------------------------- UTF-8 validation
IsCont(b, i) == i <= Len(b) /\ b[i] >= 128 /\ b[i] <= 191
InRange(b, i, lo, hi) == i <= Len(b) /\ b[i] >= lo /\ b[i] <= hi

\* length of the well-formed UTF-8 sequence that starts at b[i]; 0 if none
\* (core::str::from_utf8, Unicode table 3-7)
Utf8CharLen(b, i) ==
    LET x == b[i]
    IN  IF x < 128 THEN 1
        ELSE IF x >= 194 /\ x <= 223 THEN (IF IsCont(b, i + 1) THEN 2 ELSE 0)
        ELSE IF x = 224 THEN (IF InRange(b, i + 1, 160, 191) /\ IsCont(b, i + 2) THEN 3 ELSE 0)
        ELSE IF x = 237 THEN (IF InRange(b, i + 1, 128, 159) /\ IsCont(b, i + 2) THEN 3 ELSE 0)
        ELSE IF x >= 225 /\ x <= 239 THEN (IF IsCont(b, i + 1) /\ IsCont(b, i + 2) THEN 3 ELSE 0)
        ELSE IF x = 240 THEN (IF InRange(b, i + 1, 144, 191) /\ IsCont(b, i + 2) /\ IsCont(b, i + 3) THEN 4 ELSE 0)
        ELSE IF x >= 241 /\ x <= 243 THEN (IF IsCont(b, i + 1) /\ IsCont(b, i + 2) /\ IsCont(b, i + 3) THEN 4 ELSE 0)
        ELSE IF x = 244 THEN (IF InRange(b, i + 1, 128, 143) /\ IsCont(b, i + 2) /\ IsCont(b, i + 3) THEN 4 ELSE 0)
        ELSE 0

RECURSIVE ValidUtf8From(_, _)
ValidUtf8From(b, i) ==
    IF i > Len(b) THEN TRUE
    ELSE LET n == Utf8CharLen(b, i)
         IN  n > 0 /\ ValidUtf8From(b, i + n)

\* std::str::from_utf8(b).is_ok()
IsValidUtf8(b) == ValidUtf8From(b, 1)

\* ---------------------------------------------------- parse_http_request
\* char::is_whitespace restricted to the ASCII range (split_whitespace);
\* the non-ASCII White_Space code points lie outside the request alphabet
Whitespace == {HT, LF, 11, 12, CR, SP}

\* request.lines().next(): the text before the first "\n", without the
\* "\r" of a "\r\n" terminator; None for the empty string
FirstLine(s) ==
    IF Len(s) = 0 THEN None
    ELSE LET i == IndexOf(s, LF, 1)
             line == Take(s, i - 1)
         IN  IF i <= Len(s) /\ Len(line) > 0 /\ line[Len(line)] = CR
             THEN Some(Take(line, Len(line) - 1))
             ELSE Some(line)

\* index of the first byte at or after i that is (ws = TRUE) or is not
\* (ws = FALSE) whitespace; Len(s)+1 when there is none
RECURSIVE SkipWhile(_, _, _)
SkipWhile(s, i, ws) ==
    IF i > Len(s) THEN Len(s) + 1
    ELSE IF (s[i] \in Whitespace) = ws THEN SkipWhile(s, i + 1, ws)
    ELSE i

\* str::split_whitespace().collect(): the maximal runs of non-whitespace
RECURSIVE SplitWhitespace(_)
SplitWhitespace(s) ==
    LET b == SkipWhile(s, 1, TRUE)
        e == SkipWhile(s, b, FALSE)
    IN  IF b > Len(s) THEN <<>>
        ELSE <<SubSeq(s, b, e - 1)>> \o SplitWhitespace(Drop(s, e - 1))

\* fn parse_http_request(buffer: &[u8]) -> Option<(&str, &str)>
parse_http_request(buffer) ==
    IF ~IsValidUtf8(buffer) THEN None
    ELSE LET request_line == FirstLine(buffer)
         IN  IF ~request_line.some THEN None
             ELSE LET parts == SplitWhitespace(request_line.val)
                  IN  IF Len(parts) >= 2
                      THEN Some([method |-> parts[1], path |-> parts[2]])
                      ELSE None

\* parse_http_request(&buffer).unwrap_or(("GET", "/"))
ParseOrDefault(buffer) ==
    LET r == parse_http_request(buffer)
    IN  IF r.some THEN r.val ELSE [method |-> S_GET, path |-> S_ROOT]

\* ---------------------------------------------------------- sanitize_path
\* str::trim_start_matches('/')
RECURSIVE TrimStartSlashes(_)
TrimStartSlashes(s) ==
    IF Len(s) > 0 /\ s[1] = Slash THEN TrimStartSlashes(Tail(s)) ELSE s

\* the filter closure without its ".." test
IsSafeComponent_KeepsDotDot(component) ==
    component # <<>> /\ component # S_DOT

\* the filter closure of sanitize_path
IsSafeComponent(component) ==
    component # <<>> /\ component # S_DOT /\ component # S_DOTDOT

\* a filter that resolves ".." by removing the component before it
RECURSIVE PopFold(_, _)
PopFold(parts, acc) ==
    IF Len(parts) = 0 THEN acc
    ELSE IF parts[1] = S_DOTDOT
         THEN PopFold(Tail(parts), IF Len(acc) = 0 THEN acc ELSE Take(acc, Len(acc) - 1))
    ELSE IF parts[1] = <<>> \/ parts[1] = S_DOT THEN PopFold(Tail(parts), acc)
    ELSE PopFold(Tail(parts), Append(acc, parts[1]))
SafeComponents_Resolving(parts) == PopFold(parts, <<>>)

\* a filter that keeps what lies between two adjacent separators
RECURSIVE SafeComponents_KeepsEmpty(_)
SafeComponents_KeepsEmpty(parts) ==
    IF Len(parts) = 0 THEN <<>>
    ELSE (IF parts[1] # S_DOT /\ parts[1] # S_DOTDOT THEN <<parts[1]>> ELSE <<>>)
         \o SafeComponents_KeepsEmpty(Tail(parts))

RECURSIVE SafeComponents(_)
SafeComponents(parts) ==
    IF Len(parts) = 0 THEN <<>>
    ELSE (IF IsSafeComponent(parts[1]) THEN <<parts[1]>> ELSE <<>>)
         \o SafeComponents(Tail(parts))

\* fn sanitize_path(path: &str) -> String
sanitize_path(path) ==
    Join(SafeComponents(Split(TrimStartSlashes(path), Slash)), Slash)

\* ------------------------------------------------------- get_content_type
Mime(t, s) == [type |-> t, subtype |-> s]
TextPlain == Mime("text", "plain")

\* the Normal/ParentDir components of std::path::Path: empty pieces and
\* "." pieces are skipped
RECURSIVE PathComponents(_)
PathComponents(parts) ==
    IF Len(parts) = 0 THEN <<>>
    ELSE (IF parts[1] # <<>> /\ parts[1] # S_DOT THEN <<parts[1]>> ELSE <<>>)
         \o PathComponents(Tail(parts))

\* Path::file_name(): the last component unless it is ".."
FileName(p) ==
    LET comps == PathComponents(Split(p, Slash))
    IN  IF Len(comps) = 0 \/ comps[Len(comps)] = S_DOTDOT THEN None
        ELSE Some(comps[Len(comps)])

\* an extension taken after the last "." wherever that "." stands
PathExtension_LeadingDot(p) ==
    LET f == FileName(p)
    IN  IF ~f.some THEN None
        ELSE LET i == LastIndexOf(f.val, Dot, Len(f.val))
             IN  IF i < 1 THEN None ELSE Some(Drop(f.val, i))

\* Path::extension(): the text after the last "." of the file name; None
\* without a file name, without a ".", or when the only "." comes first
PathExtension(p) ==
    LET f == FileName(p)
    IN  IF ~f.some THEN None
        ELSE LET i == LastIndexOf(f.val, Dot, Len(f.val))
             IN  IF i <= 1 THEN None ELSE Some(Drop(f.val, i))

\* the match of get_content_type
MimeOfExtension(extension) ==
    CASE extension = <<104, 116, 109, 108>> -> Mime("text", "html")
      [] extension = <<99, 115, 115>> -> Mime("text", "css")
      [] extension = <<106, 115>> -> Mime("application", "javascript")
      [] extension = <<106, 115, 111, 110>> -> Mime("application", "json")
      [] extension = <<112, 110, 103>> -> Mime("image", "png")
      [] extension = <<106, 112, 103>> -> Mime("image", "jpeg")
      [] extension = <<106, 112, 101, 103>> -> Mime("image", "jpeg")
      [] extension = <<103, 105, 102>> -> Mime("image", "gif")
      [] extension = <<115, 118, 103>> -> Mime("image", "svg+xml")
      [] extension = <<105, 99, 111>> -> Mime("image", "x-icon")
      [] extension = <<112, 100, 102>> -> Mime("application", "pdf")
      [] extension = <<116, 120, 116>> -> Mime("text", "plain")
      [] extension = <<120, 109, 108>> -> Mime("application", "xml")
      [] extension = <<119, 101, 98, 112>> -> Mime("image", "webp")
      [] OTHER -> TextPlain

\* fn get_content_type(path: &str) -> &str
get_content_type(p) ==
    LET ext == PathExtension(p)
    IN  MimeOfExtension(IF ext.some THEN ext.val ELSE <<>>)

\* a classification that takes only the "text/" types as text
IsBinary_OnlyTextPrefix(content_type) ==
    content_type.type # "text"

\* !content_type.starts_with("text/") && content_type != "application/javascript"
IsBinary(content_type) ==
    content_type.type # "text" /\ content_type # Mime("application", "javascript")

\* ---------------------------------------------------------- configuration
\* "public", "index.html" (NebulaConfig::default) and the values of a
\* complete nebula.toml: "www", "home.txt"
S_PUBLIC == <<112, 117, 98, 108, 105, 99>>
S_INDEX_HTML == <<105, 110, 100, 101, 120, 46, 104, 116, 109, 108>>
S_WWW == <<119, 119, 119>>
S_HOME_TXT == <<104, 111, 109, 101, 46, 116, 120, 116>>

\* impl Default for NebulaConfig
DefaultConfig ==
    [address |-> "127.0.0.1", port |-> 7878,
     public_dir |-> S_PUBLIC, default_file |-> S_INDEX_HTML]

ConfigFields == {"address", "port", "public_dir", "default_file"}

\* states of nebula.toml: the file is missing, cannot be read, is not
\* TOML, or is a TOML document giving some of the four fields
FileValues ==
    [address |-> "0.0.0.0", port |-> 8080,
     public_dir |-> S_WWW, default_file |-> S_HOME_TXT]
TomlDoc(fields) == [kind |-> "toml", doc |-> [f \in fields |-> FileValues[f]]]
CfgFiles ==
    { [kind |-> "missing"], [kind |-> "unreadable"], [kind |-> "garbled"] }
    \cup { TomlDoc(fields) : fields \in SUBSET ConfigFields }

\* the states of nebula.toml a run of Spec starts from: one for each
\* configuration load_config can return
StartCfgFiles == {[kind |-> "missing"], TomlDoc(ConfigFields)}

\* a loader that fills the fields a document lacks from the default
load_config_Merging(file) ==
    IF file.kind = "toml"
    THEN [f \in ConfigFields |->
            IF f \in DOMAIN file.doc THEN file.doc[f] ELSE DefaultConfig[f]]
    ELSE DefaultConfig

\* fn load_config() -> NebulaConfig: the deserialized document when the
\* read and toml::from_str both succeed, the default otherwise
load_config(file) ==
    IF file.kind = "toml" /\ DOMAIN file.doc = ConfigFields
    THEN [f \in ConfigFields |-> file.doc[f]]
    ELSE DefaultConfig

\* ------------------------------------------------------------- filesystem
\* the store is a function from paths to nodes; a path outside its domain
\* does not exist
\* file bytes: the two bytes of U+00E9; alone or in the other order they
\* are not UTF-8
FileBytes == {195, 169}

RECURSIVE SeqsUpTo(_, _)
SeqsUpTo(S, n) ==
    IF n = 0 THEN {<<>>}
    ELSE LET shorter == SeqsUpTo(S, n - 1)
         IN  shorter \cup {Append(q, x) : q \in {t \in shorter : Len(t) = n - 1}, x \in S}

Contents == SeqsUpTo(FileBytes, MaxFileLen)
FileNode(b) == [kind |-> "file", bytes |-> b]
Nodes == {FileNode(b) : b \in Contents} \cup {[kind |-> "noperm"], [kind |-> "dir"]}
EmptyFs == [p \in {} |-> FileNode(<<>>)]

\* Path::new(p).exists(): metadata succeeds; a path with an interior NUL
\* cannot be passed to the OS and reports false
Exists(store, p) == ~Contains(p, NUL) /\ p \in DOMAIN store

\* fs::read(p)
fs_read(store, p) ==
    IF Exists(store, p) /\ store[p].kind = "file" THEN Some(store[p].bytes) ELSE None

\* a text read that decodes lossily: an ill-formed file is returned as one
\* U+FFFD replacement character
fs_read_to_string_Lossy(store, p) ==
    LET r == fs_read(store, p)
    IN  IF ~r.some THEN None
        ELSE IF IsValidUtf8(r.val) THEN r
        ELSE Some(<<239, 191, 189>>)

\* fs::read_to_string(p): the bytes of the file when they are valid UTF-8;
\* a String holds exactly the bytes that were validated
fs_read_to_string(store, p) ==
    LET r == fs_read(store, p)
    IN  IF r.some /\ IsValidUtf8(r.val) THEN r ELSE None

\* ------------------------------------------------------------ the handler
\* a resolution that maps every path that sanitizes to nothing to the
\* default file
CandidatePath_EmptyIsDefault(cfg, path) ==
    IF path = S_ROOT \/ sanitize_path(path) = <<>>
    THEN cfg.public_dir \o <<Slash>> \o cfg.default_file
    ELSE cfg.public_dir \o <<Slash>> \o sanitize_path(path)

\* let file_path = if path == "/" {..} else {..}   (main.rs:104-111)
CandidatePath(cfg, path) ==
    IF path = S_ROOT
    THEN cfg.public_dir \o <<Slash>> \o cfg.default_file
    ELSE cfg.public_dir \o <<Slash>> \o sanitize_path(path)

\* a file branch that answers a failed read with 200 and no bytes
ReadOutcome_EmptyOnError(store, file_path) ==
    LET content_type == get_content_type(file_path)
        r == IF IsBinary(content_type)
             THEN fs_read(store, file_path)
             ELSE fs_read_to_string(store, file_path)
    IN  IF r.some THEN [status_line |-> OK200, content |-> r.val]
        ELSE [status_line |-> OK200, content |-> <<>>]

\* the file branch of handle_connection (main.rs:116-138)
ReadOutcome(store, file_path) ==
    LET content_type == get_content_type(file_path)
        r == IF IsBinary(content_type)
             THEN fs_read(store, file_path)
             ELSE fs_read_to_string(store, file_path)
    IN  IF r.some THEN [status_line |-> OK200, content |-> r.val]
        ELSE [status_line |-> ERR500, content |-> ErrorReadingFile]

\* a diagnostic route that compares the path with "hello", the leading
\* "/" left out
MissingOutcome_NoSlash(path) ==
    IF path = Tail(S_HELLO)
    THEN [status_line |-> OK200, content |-> HelloRustacean]
    ELSE [status_line |-> NOTFOUND404, content |-> PageNotFound]

\* the branches without a file (main.rs:139-143)
MissingOutcome(path) ==
    IF path = S_HELLO
    THEN [status_line |-> OK200, content |-> HelloRustacean]
    ELSE [status_line |-> NOTFOUND404, content |-> PageNotFound]

\* a method gate that answers as for a missing page
NotGetOutcome_AsNotFound == [status_line |-> NOTFOUND404, content |-> PageNotFound]

\* the non-GET branch (main.rs:144-147)
NotGetOutcome == [status_line |-> NOTALLOWED405, content |-> MethodNotAllowed]

\* a header block that types every fixed body as text/plain
ResponseHeader_PlainForFixed(status, file_path, body) ==
    [status_line |-> status,
     content_type |-> IF status = OK200 THEN get_content_type(file_path) ELSE TextPlain,
     content_length |-> Len(body)]

\* format!("{}\r\nContent-Type: {}\r\nContent-Length: {}\r\n\r\n", ..):
\* the three values the header block is formatted from
ResponseHeader(status, file_path, body) ==
    [status_line |-> status,
     content_type |-> get_content_type(file_path),
     content_length |-> Len(body)]

\* let mut buffer = [0; 1024]; stream.read(&mut buffer): the bytes the
\* read returned, followed by the untouched zeros
RECURSIVE Zeros(_)
Zeros(n) == IF n <= 0 THEN <<>> ELSE <<NUL>> \o Zeros(n - 1)
FillBuffer(bytes) ==
    LET n == IF Len(bytes) < MaxBuf THEN Len(bytes) ELSE MaxBuf
    IN  Take(bytes, n) \o Zeros(MaxBuf - n)

\* the response of handle_connection to the bytes `sent` when the store
\* does not change while the request is handled (main.rs:90-158)
HandlerResponse(cfg, store, sent) ==
    LET r == ParseOrDefault(FillBuffer(sent))
        fp == CandidatePath(cfg, r.path)
        o == IF r.method # S_GET THEN NotGetOutcome
             ELSE IF Exists(store, fp) THEN ReadOutcome(store, fp)
             ELSE MissingOutcome(r.path)
    IN  [header |-> ResponseHeader(o.status_line, fp, o.content), body |-> o.content]

\* ----------------------------------------------------------------- inputs
\* request paths: every string over { '/', '.', 'a' } of 1..MaxPathLen
\* bytes, "/hello", "/a.png", "/a.js" and "/../a"
PathBytes == {Slash, Dot, 97}
S_A_PNG == <<47, 97, 46, 112, 110, 103>>
S_A_JS == <<47, 97, 46, 106, 115>>
S_UP_A == <<47, 46, 46, 47, 97>>
RequestPaths ==
    (SeqsUpTo(PathBytes, MaxPathLen) \ {<<>>}) \cup {S_HELLO, S_A_PNG, S_A_JS, S_UP_A}

\* what may follow the path on the wire: nothing, a space, a line
\* terminator, a further line, a further line that is not UTF-8
Trailers == {<<>>, <<SP>>, <<LF>>, <<CR, LF>>, <<LF, 65>>, <<LF, 255>>}

\* byte strings without a second token, or that are not UTF-8
Malformed ==
    {<<>>, S_GET, S_GET \o <<SP>>, S_POST \o <<SP>>, S_GET \o <<LF>>,
     <<LF>>, <<255>>, <<SP, SP>>}

\* the paths of the sanitizer's documented examples, "/../../etc/passwd",
\* "/a/./b/../c" and "////"
S_UP_UP_ETC_PASSWD == <<47, 46, 46, 47, 46, 46, 47, 101, 116, 99, 47, 112, 97, 115, 115, 119, 100>>
S_A_DOT_B_UP_C == <<47, 97, 47, 46, 47, 98, 47, 46, 46, 47, 99>>
S_SLASHES == <<47, 47, 47, 47>>
SanitizerExamples == {S_UP_UP_ETC_PASSWD, S_A_DOT_B_UP_C, S_SLASHES}

\* "/a.<ext>" for an extension <ext>
DotExt(ext) == <<47, 97, 46>> \o ext

\* the extensions of the table of get_content_type, in its order
TableExtensions ==
    { <<104, 116, 109, 108>>, <<99, 115, 115>>, <<106, 115>>, <<106, 115, 111, 110>>,
      <<112, 110, 103>>, <<106, 112, 103>>, <<106, 112, 101, 103>>, <<103, 105, 102>>,
      <<115, 118, 103>>, <<105, 99, 111>>, <<112, 100, 102>>, <<116, 120, 116>>,
      <<120, 109, 108>>, <<119, 101, 98, 112>> }

\* "/.html", "/a.", "/a.HTML", "/a.b.css", "/a.xyz"
S_DOT_HTML == <<47, 46, 104, 116, 109, 108>>
ExtensionPaths ==
    {DotExt(e) : e \in TableExtensions}
    \cup {S_DOT_HTML, <<47, 97, 46>>, <<47, 97, 46, 72, 84, 77, 76>>,
          <<47, 97, 46, 98, 46, 99, 115, 115>>, <<47, 97, 46, 120, 121, 122>>}

\* the paths requested with POST
PostPaths == {S_ROOT, S_HELLO, S_A_PNG, S_UP_A}

\* the byte strings a client may have sent when the handler reads
Requests ==
    {S_GET \o <<SP>> \o p \o t : p \in RequestPaths, t \in Trailers}
    \cup {S_POST \o <<SP>> \o p \o t : p \in PostPaths, t \in Trailers}
    \cup {S_GET \o <<SP>> \o p \o <<LF>> : p \in SanitizerExamples \cup ExtensionPaths}
    \cup Malformed

Conns == 1..MaxConns
\* the connections handled in Spec
Solo == {1}

\* ------------------------------------------------------------------ state
VARIABLES
    accept_errors,  \* failed accepts logged by the dispatcher's loop
    cfgFile,        \* nebula.toml as load_config found it
    config,         \* let config = load_config()
    fs,             \* the filesystem
    pc,             \* position of each connection's handler
    thread_config,  \* the clone handed to the handler's thread
    buffer,         \* let mut buffer = [0; 1024]
    nread,          \* the byte count stream.read returned
    method,
    path,
    file_path,
    status_line,
    content,
    response,       \* the formatted header block
    wire            \* what write_all has put on the connection

vars == <<accept_errors, cfgFile, config, fs, pc, thread_config, buffer, nread, method, path,
          file_path, status_line, content, response, wire>>

handlerVars == <<buffer, nread, method, path, file_path, status_line, content, response, wire>>

NoHeader == [status_line |-> "", content_type |-> Mime("", ""), content_length |-> 0]
NothingSent == [headers |-> "none", body |-> "none"]

InitFrom(files) ==
    /\ accept_errors = 0
    /\ cfgFile \in files
    /\ config = load_config(cfgFile)
    /\ pc = [c \in Conns |-> "Idle"]
    /\ thread_config = [c \in Conns |-> DefaultConfig]
    /\ buffer = [c \in Conns |-> <<>>]
    /\ nread = [c \in Conns |-> 0]
    /\ method = [c \in Conns |-> <<>>]
    /\ path = [c \in Conns |-> <<>>]
    /\ file_path = [c \in Conns |-> <<>>]
    /\ status_line = [c \in Conns |-> ""]
    /\ content = [c \in Conns |-> <<>>]
    /\ response = [c \in Conns |-> NoHeader]
    /\ wire = [c \in Conns |-> NothingSent]

Init == InitFrom(StartCfgFiles) /\ fs = EmptyFs

\* the bytes stream.read returned
Received(c) == Take(buffer[c], nread[c])

\* -------------------------------------------------------------- dispatcher
\* a dispatcher that hands every handler the built-in default
Accept_PassesDefault(c) ==
    /\ pc[c] = "Idle"
    /\ pc' = [pc EXCEPT ![c] = "ReadingRequest"]
    /\ thread_config' = [thread_config EXCEPT ![c] = DefaultConfig]
    /\ UNCHANGED <<accept_errors, cfgFile, config, fs, handlerVars>>

\* main.rs:69-78: clone the configuration, spawn the handler
Accept(c) ==
    /\ pc[c] = "Idle"
    /\ pc' = [pc EXCEPT ![c] = "ReadingRequest"]
    /\ thread_config' = [thread_config EXCEPT ![c] = config]
    /\ UNCHANGED <<accept_errors, cfgFile, config, fs, handlerVars>>

\* main.rs:79-81: incoming() yielded Err; it is logged and the loop goes on
AcceptErr ==
    /\ accept_errors < MaxAcceptErrs
    /\ accept_errors' = accept_errors + 1
    /\ UNCHANGED <<cfgFile, config, fs, pc, thread_config, handlerVars>>

\* ------------------------------------------------------------ environment
\* another process creates, replaces or removes the file a handler is
\* about to probe or read
FsChange(c) ==
    /\ pc[c] \in {"Probing", "ReadingFile"}
    /\ ~Contains(file_path[c], NUL)
    /\ \/ \E node \in Nodes :
            fs' = [p \in DOMAIN fs \cup {file_path[c]} |->
                     IF p = file_path[c] THEN node ELSE fs[p]]
       \/ /\ file_path[c] \in DOMAIN fs
          /\ fs' = [p \in DOMAIN fs \ {file_path[c]} |-> fs[p]]
    /\ UNCHANGED <<accept_errors, cfgFile, config, pc, thread_config, handlerVars>>

\* ----------------------------------------------------- handle_connection
Goto(c, label) == pc' = [pc EXCEPT ![c] = label]

\* main.rs:87-88: set_read_timeout / set_write_timeout returned Err
SetTimeoutErr(c) ==
    /\ pc[c] = "ReadingRequest"
    /\ Goto(c, "Failed")
    /\ UNCHANGED <<accept_errors, cfgFile, config, fs, thread_config, handlerVars>>

\* main.rs:90-91: stream.read returned Ok(n)
ReadOk(c, reqs) ==
    /\ pc[c] = "ReadingRequest"
    /\ \E sent \in reqs :
          /\ buffer' = [buffer EXCEPT ![c] = FillBuffer(sent)]
          /\ nread' = [nread EXCEPT ![c] = IF Len(sent) < MaxBuf THEN Len(sent) ELSE MaxBuf]
    /\ Goto(c, "Parsing")
    /\ UNCHANGED <<accept_errors, cfgFile, config, fs, thread_config, method, path, file_path,
                   status_line, content, response, wire>>

\* a read error that brings the whole process down
ReadErr_EndsProcess(c) ==
    /\ pc[c] = "ReadingRequest"
    /\ pc' = [d \in Conns |-> "Failed"]
    /\ UNCHANGED <<accept_errors, cfgFile, config, fs, thread_config, handlerVars>>

\* main.rs:91: stream.read returned Err (I/O error or the 30 s timeout)
ReadErr(c) ==
    /\ pc[c] = "ReadingRequest"
    /\ Goto(c, "Failed")
    /\ UNCHANGED <<accept_errors, cfgFile, config, fs, thread_config, handlerVars>>

\* main.rs:98-99
Parse(c) ==
    /\ pc[c] = "Parsing"
    /\ LET r == ParseOrDefault(buffer[c])
       IN  /\ method' = [method EXCEPT ![c] = r.method]
           /\ path' = [path EXCEPT ![c] = r.path]
    /\ Goto(c, "ResolvingTarget")
    /\ UNCHANGED <<accept_errors, cfgFile, config, fs, thread_config, buffer, nread, file_path,
                   status_line, content, response, wire>>

\* main.rs:104-111
Resolve(c) ==
    /\ pc[c] = "ResolvingTarget"
    /\ file_path' = [file_path EXCEPT ![c] = CandidatePath(thread_config[c], path[c])]
    /\ Goto(c, "Probing")
    /\ UNCHANGED <<accept_errors, cfgFile, config, fs, thread_config, buffer, nread,
                   method, path, status_line, content, response, wire>>

SetOutcome(c, o) ==
    /\ status_line' = [status_line EXCEPT ![c] = o.status_line]
    /\ content' = [content EXCEPT ![c] = o.content]

\* main.rs:114, 144-147: method != "GET"
MethodGate(c) ==
    /\ pc[c] = "Probing"
    /\ method[c] # S_GET
    /\ SetOutcome(c, NotGetOutcome)
    /\ Goto(c, "BuildingResponse")
    /\ UNCHANGED <<accept_errors, cfgFile, config, fs, thread_config, buffer, nread,
                   method, path, file_path, response, wire>>

\* a probe that lets the diagnostic route win over an existing file
ProbeExists_HelloFirst(c) ==
    /\ pc[c] = "Probing"
    /\ method[c] = S_GET
    /\ Exists(fs, file_path[c])
    /\ IF path[c] = S_HELLO
       THEN /\ status_line' = [status_line EXCEPT ![c] = OK200]
            /\ content' = [content EXCEPT ![c] = HelloRustacean]
            /\ Goto(c, "BuildingResponse")
       ELSE /\ Goto(c, "ReadingFile")
            /\ UNCHANGED <<status_line, content>>
    /\ UNCHANGED <<accept_errors, cfgFile, config, fs, thread_config, buffer, nread,
                   method, path, file_path, response, wire>>

\* main.rs:115: Path::new(&file_path).exists() is true
ProbeExists(c) ==
    /\ pc[c] = "Probing"
    /\ method[c] = S_GET
    /\ Exists(fs, file_path[c])
    /\ Goto(c, "ReadingFile")
    /\ UNCHANGED <<accept_errors, cfgFile, config, fs, thread_config, handlerVars>>

\* main.rs:139-143: the probe is false
ProbeMissing(c) ==
    /\ pc[c] = "Probing"
    /\ method[c] = S_GET
    /\ ~Exists(fs, file_path[c])
    /\ SetOutcome(c, MissingOutcome(path[c]))
    /\ Goto(c, "BuildingResponse")
    /\ UNCHANGED <<accept_errors, cfgFile, config, fs, thread_config, buffer, nread,
                   method, path, file_path, response, wire>>

\* main.rs:116-138: fs::read or fs::read_to_string
ReadFile(c) ==
    /\ pc[c] = "ReadingFile"
    /\ SetOutcome(c, ReadOutcome(fs, file_path[c]))
    /\ Goto(c, "BuildingResponse")
    /\ UNCHANGED <<accept_errors, cfgFile, config, fs, thread_config, buffer, nread,
                   method, path, file_path, response, wire>>

\* main.rs:149-155
BuildResponse(c) ==
    /\ pc[c] = "BuildingResponse"
    /\ response' = [response EXCEPT ![c] =
                      ResponseHeader(status_line[c], file_path[c], content[c])]
    /\ Goto(c, "WritingHeaders")
    /\ UNCHANGED <<accept_errors, cfgFile, config, fs, thread_config, buffer, nread,
                   method, path, file_path, status_line, content, wire>>

\* main.rs:157: write_all(response.as_bytes()) returned Ok
WriteHeadersOk(c) ==
    /\ pc[c] = "WritingHeaders"
    /\ wire' = [wire EXCEPT ![c].headers = "full"]
    /\ Goto(c, "WritingBody")
    /\ UNCHANGED <<accept_errors, cfgFile, config, fs, thread_config, buffer, nread,
                   method, path, file_path, status_line, content, response>>

\* a handler that ignores the result of the header write and goes on to
\* the body
WriteHeadersErr_Ignored(c) ==
    /\ pc[c] = "WritingHeaders"
    /\ \E got \in {"none", "partial"} : wire' = [wire EXCEPT ![c].headers = got]
    /\ Goto(c, "WritingBody")
    /\ UNCHANGED <<accept_errors, cfgFile, config, fs, thread_config, buffer, nread,
                   method, path, file_path, status_line, content, response>>

\* main.rs:157: write_all returned Err after writing none or some of the bytes
WriteHeadersErr(c) ==
    /\ pc[c] = "WritingHeaders"
    /\ \E got \in {"none", "partial"} : wire' = [wire EXCEPT ![c].headers = got]
    /\ Goto(c, "Failed")
    /\ UNCHANGED <<accept_errors, cfgFile, config, fs, thread_config, buffer, nread,
                   method, path, file_path, status_line, content, response>>

\* a handler that keeps the connection alive and reads the next request
WriteBodyOk_KeepAlive(c) ==
    /\ pc[c] = "WritingBody"
    /\ wire' = [wire EXCEPT ![c] = NothingSent]
    /\ Goto(c, "ReadingRequest")
    /\ UNCHANGED <<accept_errors, cfgFile, config, fs, thread_config, buffer, nread,
                   method, path, file_path, status_line, content, response>>

\* main.rs:158: write_all(&content) returned Ok
WriteBodyOk(c) ==
    /\ pc[c] = "WritingBody"
    /\ wire' = [wire EXCEPT ![c].body = "full"]
    /\ Goto(c, "Done")
    /\ UNCHANGED <<accept_errors, cfgFile, config, fs, thread_config, buffer, nread,
                   method, path, file_path, status_line, content, response>>

\* main.rs:158: write_all(&content) returned Err
WriteBodyErr(c) ==
    /\ pc[c] = "WritingBody"
    /\ \E got \in {"none", "partial"} : wire' = [wire EXCEPT ![c].body = got]
    /\ Goto(c, "Failed")
    /\ UNCHANGED <<accept_errors, cfgFile, config, fs, thread_config, buffer, nread,
                   method, path, file_path, status_line, content, response>>

Next ==
    \E c \in Solo :
        \/ Accept(c)
        \/ FsChange(c)
        \/ SetTimeoutErr(c)
        \/ ReadOk(c, Requests)
        \/ ReadErr(c)
        \/ Parse(c)
        \/ Resolve(c)
        \/ MethodGate(c)
        \/ ProbeExists(c)
        \/ ProbeMissing(c)
        \/ ReadFile(c)
        \/ BuildResponse(c)
        \/ WriteHeadersOk(c)
        \/ WriteHeadersErr(c)
        \/ WriteBodyOk(c)
        \/ WriteBodyErr(c)

Spec == Init /\ [][Next]_vars

\* the server started on every state of nebula.toml, serving "GET /",
\* "GET /hello" and "POST /"
SmallRequests ==
    { S_GET \o <<SP>> \o S_ROOT \o <<LF>>,
      S_GET \o <<SP>> \o S_HELLO \o <<LF>>,
      S_POST \o <<SP>> \o S_ROOT \o <<LF>> }

InitConfig == InitFrom(CfgFiles) /\ fs = EmptyFs

NextConfig ==
    \E c \in Solo :
        \/ Accept(c)
        \/ FsChange(c)
        \/ SetTimeoutErr(c)
        \/ ReadOk(c, SmallRequests)
        \/ ReadErr(c)
        \/ Parse(c)
        \/ Resolve(c)
        \/ MethodGate(c)
        \/ ProbeExists(c)
        \/ ProbeMissing(c)
        \/ ReadFile(c)
        \/ BuildResponse(c)
        \/ WriteHeadersOk(c)
        \/ WriteHeadersErr(c)
        \/ WriteBodyOk(c)
        \/ WriteBodyErr(c)

SpecConfig == InitConfig /\ [][NextConfig]_vars

\* the dispatcher and all its handlers running concurrently, started from
\* a complete nebula.toml over a store that holds the default file and
\* that nothing changes
DefaultFileOnly(cfg) ==
    [p \in {CandidatePath(cfg, S_ROOT)} |-> FileNode(<<195, 169>>)]

InitConc == InitFrom({TomlDoc(ConfigFields)}) /\ fs = DefaultFileOnly(config)

\* one step of the handler of connection c
HandlerStep(c) ==
    \/ SetTimeoutErr(c)
    \/ ReadOk(c, SmallRequests)
    \/ ReadErr(c)
    \/ Parse(c)
    \/ Resolve(c)
    \/ MethodGate(c)
    \/ ProbeExists(c)
    \/ ProbeMissing(c)
    \/ ReadFile(c)
    \/ BuildResponse(c)
    \/ WriteHeadersOk(c)
    \/ WriteHeadersErr(c)
    \/ WriteBodyOk(c)
    \/ WriteBodyErr(c)

NextConc ==
    \/ AcceptErr
    \/ \E c \in Conns : Accept(c)
    \/ \E c \in Conns : HandlerStep(c)

SpecConc == InitConc /\ [][NextConc]_vars

\* the positions of a handler
Positions ==
    {"Idle", "ReadingRequest", "Parsing", "ResolvingTarget", "Probing", "ReadingFile",
     "BuildingResponse", "WritingHeaders", "WritingBody", "Done", "Failed"}

\* a step of the spawned handler of connection c, as its position shows it
Advances(c) ==
    /\ pc[c] \notin {"Idle", "Done", "Failed"}
    /\ \E position \in Positions \ {pc[c]} : pc' = [pc EXCEPT ![c] = position]

\* every call a spawned handler makes returns, with a result, with an
\* error or by the 30 s timeout, and the handler's thread goes on
FairSpecConc == SpecConc /\ \A c \in Conns : WF_pc(Advances(c))

TypeOK ==
    /\ pc \in [Conns -> {"Idle", "ReadingRequest", "Parsing", "ResolvingTarget", "Probing",
                         "ReadingFile", "BuildingResponse", "WritingHeaders",
                         "WritingBody", "Done", "Failed"}]
    /\ \A c \in Conns : Len(buffer[c]) \in {0, MaxBuf}
    /\ accept_errors \in 0..MaxAcceptErrs

\* ================================================================= claims
\* positions at which file_path has been computed
Resolved(c) ==
    pc[c] \in {"Probing", "ReadingFile", "BuildingResponse", "WritingHeaders",
               "WritingBody", "Done"}
    \/ (pc[c] = "Failed" /\ file_path[c] # <<>>)

\* positions at which the outcome (status_line, content) has been decided
Decided(c) == status_line[c] # ""

\* rel is empty or a "/"-joined list of components none of which is
\* empty, "." or ".."
StaysBelowRoot(rel) ==
    rel = <<>>
    \/ LET pieces == Split(rel, Slash)
       IN  \A k \in 1..Len(pieces) : pieces[k] \notin {<<>>, S_DOT, S_DOTDOT}

IsPrefix(pre, s) == Len(pre) <= Len(s) /\ Take(s, Len(pre)) = pre

\* C1: for every request path other than "/", the path the handler probes
\* and reads is public_dir, "/", and a "/"-joined sequence of components
\* none of which is empty, "." or "..".
C1_CandidateBelowRoot ==
    \A c \in Conns :
        (Resolved(c) /\ path[c] # S_ROOT) =>
            LET root == thread_config[c].public_dir \o <<Slash>>
            IN  /\ IsPrefix(root, file_path[c])
                /\ StaysBelowRoot(Drop(file_path[c], Len(root)))

\* a request for "/../a" has been resolved to public_dir/a, found and is
\* about to be read
C1_Witness ==
    \E c \in Conns :
        /\ pc[c] = "ReadingFile"
        /\ path[c] = S_UP_A
        /\ file_path[c] = thread_config[c].public_dir \o <<Slash, 97>>

\* C2: a request whose method is not exactly "GET" is answered 405 with
\* the body "Method not allowed", whatever the path and whether or not the
\* candidate file exists, and the handler never reads a file for it.
C2_MethodGate ==
    \A c \in Conns :
        (Resolved(c) /\ method[c] # S_GET) =>
            /\ pc[c] # "ReadingFile"
            /\ Decided(c) =>
                  /\ status_line[c] = NOTALLOWED405
                  /\ content[c] = MethodNotAllowed

\* a POST was answered while its candidate file existed with content
C2_Witness ==
    \E c \in Conns :
        /\ pc[c] = "Done"
        /\ method[c] = S_POST
        /\ Exists(fs, file_path[c])
        /\ fs[file_path[c]] = FileNode(<<195, 169>>)
        /\ status_line[c] = NOTALLOWED405

\* the first line of the bytes a client sent, as the read received them
ReceivedOf(sent) == Take(sent, IF Len(sent) < MaxBuf THEN Len(sent) ELSE MaxBuf)

\* positions at which method and path have been set
Parsed(c) == pc[c] \notin {"Idle", "ReadingRequest", "Parsing"} /\ method[c] # <<>>

\* C3: two requests with the same first line get the same response under
\* the same configuration and filesystem, whatever follows the first line.
C3_OnlyFirstLine ==
    \A c \in Conns :
        Parsed(c) =>
            \A other \in Requests :
                FirstLine(ReceivedOf(other)) = FirstLine(Received(c)) =>
                    HandlerResponse(thread_config[c], fs, other)
                        = HandlerResponse(thread_config[c], fs, Received(c))

\* C4: a 500 outcome carries exactly "Error reading file"; a 200 outcome
\* carries the whole content the candidate file has when it is read, or
\* "Hello, Rustacean!"; an outcome, once decided, is not changed.  The
\* filesystem may change between the probe and the read.
C4_OutcomeConsistent ==
    [][\A c \in Conns :
          /\ (status_line'[c] = ERR500 => content'[c] = ErrorReadingFile)
          /\ (~Decided(c) /\ status_line'[c] = OK200) =>
                \/ content'[c] = HelloRustacean
                \/ /\ Exists(fs, file_path[c])
                   /\ fs[file_path[c]].kind = "file"
                   /\ content'[c] = fs[file_path[c]].bytes
          /\ Decided(c) => (status_line'[c] = status_line[c] /\ content'[c] = content[c])
      ]_vars

\* the file was there at the probe and gone at the read: a 500 outcome
C4_Witness ==
    \E c \in Conns :
        /\ pc[c] = "Done"
        /\ status_line[c] = ERR500
        /\ content[c] = ErrorReadingFile
        /\ ~Exists(fs, file_path[c])

\* C5: every response has one of the four status lines, the Content-Type
\* of the candidate path whatever the outcome, a Content-Length equal to
\* the length of the body, and the body follows the complete header block.
C5_WellFormedResponse ==
    \A c \in Conns :
        /\ response[c] # NoHeader =>
              /\ response[c].status_line \in StatusLines
              /\ response[c].status_line = status_line[c]
              /\ response[c].content_type = get_content_type(file_path[c])
              /\ response[c].content_length = Len(content[c])
        /\ wire[c].headers # "none" => response[c] # NoHeader
        /\ wire[c].body # "none" => wire[c].headers = "full"

\* a 405 answer to a request for /a.png was sent as image/png, length 18
C5_Witness ==
    \E c \in Conns :
        /\ pc[c] = "Done"
        /\ wire[c] = [headers |-> "full", body |-> "full"]
        /\ response[c] = [status_line |-> NOTALLOWED405,
                          content_type |-> Mime("image", "png"),
                          content_length |-> 18]

\* the received bytes are not UTF-8, or their first line has fewer than
\* two whitespace-separated tokens
Unparsable(bytes) ==
    \/ ~IsValidUtf8(bytes)
    \/ ~FirstLine(bytes).some
    \/ Len(SplitWhitespace(FirstLine(bytes).val)) < 2

\* C6: a request that cannot be parsed is handled exactly as GET / is:
\* the candidate is public_dir/default_file.
C6_UnparsableIsRoot ==
    \A c \in Conns :
        (Parsed(c) /\ Unparsable(Received(c))) =>
            /\ method[c] = S_GET
            /\ path[c] = S_ROOT
            /\ Resolved(c) =>
                  file_path[c] = thread_config[c].public_dir \o <<Slash>>
                                    \o thread_config[c].default_file

\* C7: a GET whose candidate file does not exist when probed is answered
\* 200 "Hello, Rustacean!" if the path is exactly "/hello" and 404
\* "Page not found" for every other path.
C7_MissingFile ==
    [][\A c \in Conns :
          (/\ pc[c] = "Probing"
           /\ method[c] = S_GET
           /\ ~Exists(fs, file_path[c])
           /\ pc'[c] # "Probing") =>
              /\ pc'[c] = "BuildingResponse"
              /\ IF path[c] = S_HELLO
                 THEN status_line'[c] = OK200 /\ content'[c] = HelloRustacean
                 ELSE status_line'[c] = NOTFOUND404 /\ content'[c] = PageNotFound
      ]_vars

\* a GET to /hello was answered by the diagnostic route, public_dir/hello
\* missing
C7_Witness ==
    \E c \in Conns :
        /\ pc[c] = "Done"
        /\ method[c] = S_GET
        /\ path[c] = S_HELLO
        /\ ~Exists(fs, file_path[c])
        /\ status_line[c] = OK200
        /\ content[c] = HelloRustacean

\* C8 as stated: a GET to /hello is answered 200 "Hello, Rustacean!" in
\* every filesystem state, whether or not public_dir/hello exists.
C8_HelloAlways ==
    \A c \in Conns :
        (Decided(c) /\ method[c] = S_GET /\ path[c] = S_HELLO) =>
            status_line[c] = OK200 /\ content[c] = HelloRustacean

\* C8 amended: the outcome of a GET to /hello is decided at the probe only
\* when public_dir/hello does not exist, and is then 200 "Hello,
\* Rustacean!"; when it exists the outcome is decided by reading it: 200
\* with the bytes of the file, or 500 "Error reading file".
C8_HelloUnlessFile ==
    [][\A c \in Conns :
          (/\ method[c] = S_GET
           /\ path[c] = S_HELLO
           /\ ~Decided(c)
           /\ status_line'[c] # "") =>
              \/ /\ pc[c] = "Probing"
                 /\ ~Exists(fs, file_path[c])
                 /\ status_line'[c] = OK200
                 /\ content'[c] = HelloRustacean
              \/ /\ pc[c] = "ReadingFile"
                 /\ \/ /\ status_line'[c] = OK200
                       /\ Exists(fs, file_path[c])
                       /\ fs[file_path[c]].kind = "file"
                       /\ content'[c] = fs[file_path[c]].bytes
                    \/ /\ status_line'[c] = ERR500
                       /\ content'[c] = ErrorReadingFile
      ]_vars

\* a GET to /hello was answered with the bytes of the file public_dir/hello
C8_Witness ==
    \E c \in Conns :
        /\ pc[c] = "Done"
        /\ method[c] = S_GET
        /\ path[c] = S_HELLO
        /\ status_line[c] = OK200
        /\ content[c] = <<195, 169>>
        /\ fs[file_path[c]] = FileNode(<<195, 169>>)

\* C9: when the read of an existing candidate file is answered 200, the
\* body is the byte sequence of the file, for binary and for text content
\* types alike.
C9_BodyIsFileBytes ==
    [][\A c \in Conns :
          (pc[c] = "ReadingFile" /\ status_line'[c] = OK200) =>
              /\ Exists(fs, file_path[c])
              /\ fs[file_path[c]].kind = "file"
              /\ content'[c] = fs[file_path[c]].bytes
              /\ Len(content'[c]) = Len(fs[file_path[c]].bytes)
      ]_vars

\* a text-typed file holding a two-byte character was served unchanged
C9_Witness ==
    \E c \in Conns :
        /\ pc[c] = "Done"
        /\ status_line[c] = OK200
        /\ ~IsBinary(get_content_type(file_path[c]))
        /\ content[c] = <<195, 169>>
        /\ fs[file_path[c]] = FileNode(<<195, 169>>)

\* C10: the handler acts on the first and second whitespace-separated
\* token of the first line of the bytes received; the parse fails, giving
\* ("GET", "/"), exactly when those bytes are not UTF-8 or that line has
\* fewer than two tokens; no byte of the unfilled remainder of the buffer
\* is part of the method or the path.
C10_TokensOfReceived ==
    \A c \in Conns :
        Parsed(c) =>
            IF Unparsable(Received(c))
            THEN method[c] = S_GET /\ path[c] = S_ROOT
            ELSE LET parts == SplitWhitespace(FirstLine(Received(c)).val)
                 IN  method[c] = parts[1] /\ path[c] = parts[2]

\* the part of the candidate after public_dir and "/"
RelativePart(c) == Drop(file_path[c], Len(thread_config[c].public_dir) + 1)

\* the sanitizer as documented: strip one leading "/", split on "/", drop
\* the components that are empty, "." or "..", join with "/"
DocumentedSanitize(p) ==
    LET rest == IF Len(p) > 0 /\ p[1] = Slash THEN Tail(p) ELSE p
        kept == SelectSeq(Split(rest, Slash),
                          LAMBDA x : x # <<>> /\ x # S_DOT /\ x # S_DOTDOT)
    IN  Join(kept, Slash)

\* the handler sanitized the path and the result is the documented one
SanitizedAsDocumented(c) ==
    (Resolved(c) /\ path[c] # S_ROOT) => RelativePart(c) = DocumentedSanitize(path[c])

\* the handler sanitized path p and the result is r
SanitizesTo(c, p, r) ==
    (Resolved(c) /\ path[c] = p) => RelativePart(c) = r

\* C11 as stated: sanitize(p) is p without one leading "/", split on "/",
\* without the empty, "." and ".." components, joined with "/";
\* sanitize("/../../etc/passwd") = "etc/passwd", sanitize("/a/./b/../c") =
\* "a/c", sanitize("////") = "".
C11_SanitizeWithExamples ==
    \A c \in Conns :
        /\ SanitizedAsDocumented(c)
        /\ SanitizesTo(c, S_UP_UP_ETC_PASSWD, <<101, 116, 99, 47, 112, 97, 115, 115, 119, 100>>)
        /\ SanitizesTo(c, S_A_DOT_B_UP_C, <<97, 47, 99>>)
        /\ SanitizesTo(c, S_SLASHES, <<>>)

\* C11 amended: the same, with sanitize("/a/./b/../c") = "a/b/c": a ".."
\* component is dropped, the component before it is kept.
C11_SanitizeDropsComponents ==
    \A c \in Conns :
        /\ SanitizedAsDocumented(c)
        /\ SanitizesTo(c, S_UP_UP_ETC_PASSWD, <<101, 116, 99, 47, 112, 97, 115, 115, 119, 100>>)
        /\ SanitizesTo(c, S_A_DOT_B_UP_C, <<97, 47, 98, 47, 99>>)
        /\ SanitizesTo(c, S_SLASHES, <<>>)

\* the handler has sanitized "/a/./b/../c"
C11_Witness ==
    \E c \in Conns :
        /\ pc[c] = "Probing"
        /\ path[c] = S_A_DOT_B_UP_C
        /\ RelativePart(c) = <<97, 47, 98, 47, 99>>

\* C12: sanitizing a sanitized path changes nothing.
C12_SanitizeIdempotent ==
    \A c \in Conns :
        (Resolved(c) /\ path[c] # S_ROOT) =>
            sanitize_path(RelativePart(c)) = RelativePart(c)

\* the handler has sanitized a path that sanitizing changed, with more
\* than one component left
C12_Witness ==
    \E c \in Conns :
        /\ pc[c] = "Probing"
        /\ path[c] = S_UP_UP_ETC_PASSWD
        /\ RelativePart(c) # path[c]
        /\ Contains(RelativePart(c), Slash)

\* the documented table: extension, type, subtype
DocumentedTable ==
    { <<<<104, 116, 109, 108>>, "text", "html">>,
      <<<<99, 115, 115>>, "text", "css">>,
      <<<<106, 115>>, "application", "javascript">>,
      <<<<106, 115, 111, 110>>, "application", "json">>,
      <<<<112, 110, 103>>, "image", "png">>,
      <<<<106, 112, 103>>, "image", "jpeg">>,
      <<<<106, 112, 101, 103>>, "image", "jpeg">>,
      <<<<103, 105, 102>>, "image", "gif">>,
      <<<<115, 118, 103>>, "image", "svg+xml">>,
      <<<<105, 99, 111>>, "image", "x-icon">>,
      <<<<112, 100, 102>>, "application", "pdf">>,
      <<<<116, 120, 116>>, "text", "plain">>,
      <<<<120, 109, 108>>, "application", "xml">>,
      <<<<119, 101, 98, 112>>, "image", "webp">> }

TableLookup(ext) ==
    IF \E row \in DocumentedTable : row[1] = ext
    THEN LET row == CHOOSE r \in DocumentedTable : r[1] = ext
         IN  [type |-> row[2], subtype |-> row[3]]
    ELSE [type |-> "text", subtype |-> "plain"]

\* the text after the last "/" of p
AfterLastSlash(p) == Drop(p, LastIndexOf(p, Slash, Len(p)))

\* p without its trailing "/"s
RECURSIVE StripTrailingSlashes(_)
StripTrailingSlashes(p) ==
    IF Len(p) > 0 /\ p[Len(p)] = Slash THEN StripTrailingSlashes(Take(p, Len(p) - 1)) ELSE p

\* the type the table gives to the text after the last "." of segment seg,
\* a "." in first position counting (leading = TRUE) or not
MimeOfSegment(seg, leading) ==
    LET i == LastIndexOf(seg, Dot, Len(seg))
    IN  IF i = 0 \/ (i = 1 /\ ~leading) THEN [type |-> "text", subtype |-> "plain"]
        ELSE TableLookup(Drop(seg, i))

\* positions at which the header block has been formatted
Built(c) == response[c] # NoHeader

\* C13 as stated: the content type is the one the table gives to the text
\* after the last "." of the final path segment, also when that "." is the
\* first character of the segment (".html"), and text/plain when that text
\* is empty, absent or not in the table.
C13_TypeOfLastDot ==
    \A c \in Conns :
        Built(c) =>
            response[c].content_type = MimeOfSegment(AfterLastSlash(file_path[c]), TRUE)

\* C13 amended: the content type is the one the table gives to the text
\* after the last "." of the last component of the path (a trailing "/"
\* ignored) when that "." is not the first character of the component, and
\* text/plain otherwise; a file named ".html" is text/plain.
C13_TypeOfExtension ==
    \A c \in Conns :
        Built(c) =>
            /\ response[c].content_type =
                  MimeOfSegment(AfterLastSlash(StripTrailingSlashes(file_path[c])), FALSE)
            /\ path[c] = S_DOT_HTML => response[c].content_type = TextPlain

\* the answer to a request for "/.html" was typed text/plain
C13_Witness ==
    \E c \in Conns :
        /\ pc[c] = "Done"
        /\ path[c] = S_DOT_HTML
        /\ AfterLastSlash(file_path[c]) = Tail(S_DOT_HTML)
        /\ response[c].content_type = TextPlain

\* the content types read as text: "text/..." and "application/javascript"
ReadAsText(ct) ==
    ct.type = "text" \/ (ct.type = "application" /\ ct.subtype = "javascript")

\* C19: the read of an existing regular file whose type is "text/..." or
\* "application/javascript" (unknown and missing extensions included) is
\* answered 200 with the bytes if they are valid UTF-8 and 500 "Error
\* reading file" if they are not; under a binary type the same bytes are
\* answered 200 unchanged.
C19_TextFilesMustBeUtf8 ==
    [][\A c \in Conns :
          (/\ pc[c] = "ReadingFile"
           /\ pc'[c] # "ReadingFile"
           /\ Exists(fs, file_path[c])
           /\ fs[file_path[c]].kind = "file") =>
              LET bytes == fs[file_path[c]].bytes
                  ct == MimeOfSegment(AfterLastSlash(file_path[c]), FALSE)
              IN  IF ReadAsText(ct) /\ ~IsValidUtf8(bytes)
                  THEN status_line'[c] = ERR500 /\ content'[c] = ErrorReadingFile
                  ELSE status_line'[c] = OK200 /\ content'[c] = bytes
      ]_vars

\* "/a.js" held bytes that are not UTF-8 and was answered 500
C19_Witness ==
    \E c \in Conns :
        /\ pc[c] = "Done"
        /\ path[c] = S_A_JS
        /\ Exists(fs, file_path[c])
        /\ fs[file_path[c]] = FileNode(<<169, 195>>)
        /\ status_line[c] = ERR500

\* every component of p between "/"s is empty, "." or ".."
OnlyDroppedComponents(p) ==
    LET pieces == Split(p, Slash)
    IN  \A k \in 1..Len(pieces) : pieces[k] \in {<<>>, S_DOT, S_DOTDOT}

CompleteFile(file) ==
    file.kind = "toml" /\ DOMAIN file.doc = ConfigFields

\* C14: whatever the state of nebula.toml (missing, unreadable, not TOML,
\* lacking a section or a field, complete), the loaded configuration has
\* all four fields and is either exactly the file's four values, when the
\* file is complete, or exactly the built-in default; it never mixes the
\* two, and the handler is started with it.
C14_LoadAllOrNothing ==
    /\ DOMAIN config = ConfigFields
    /\ IF CompleteFile(cfgFile)
       THEN \A f \in ConfigFields : config[f] = cfgFile.doc[f]
       ELSE /\ config.address = "127.0.0.1"
            /\ config.port = 7878
            /\ config.public_dir = S_PUBLIC
            /\ config.default_file = S_INDEX_HTML
    /\ \A c \in Conns : pc[c] # "Idle" => thread_config[c] = config

\* a file lacking only default_file was loaded as the default and "GET /"
\* was served from public/index.html
C14_Witness ==
    \E c \in Conns :
        /\ cfgFile = TomlDoc({"address", "port", "public_dir"})
        /\ config = DefaultConfig
        /\ pc[c] = "Done"
        /\ path[c] = S_ROOT
        /\ file_path[c] = S_PUBLIC \o <<Slash>> \o S_INDEX_HTML

\* the documented state of a handler position: the probe and the file
\* read belong to ResolvingTarget, the two writes to Writing
StateOf(position) ==
    CASE position \in {"Probing", "ReadingFile"} -> "ResolvingTarget"
      [] position \in {"WritingHeaders", "WritingBody"} -> "Writing"
      [] OTHER -> position

\* the documented order of the states
Successor(state) ==
    CASE state = "Idle" -> "ReadingRequest"
      [] state = "ReadingRequest" -> "Parsing"
      [] state = "Parsing" -> "ResolvingTarget"
      [] state = "ResolvingTarget" -> "BuildingResponse"
      [] state = "BuildingResponse" -> "Writing"
      [] state = "Writing" -> "Done"
      [] OTHER -> "none"

\* C15: a handler passes through ReadingRequest, Parsing, ResolvingTarget,
\* BuildingResponse, Writing, Done in that order, one state at a time, and
\* enters Failed only from ReadingRequest or Writing; nothing is on the
\* wire when the read failed, the body write starts only after the whole
\* header block was written, a failed header write leaves the body
\* unwritten, and a failed handler writes nothing more.
C15_StatesInOrder ==
    /\ [][\A c \in Conns :
            StateOf(pc'[c]) # StateOf(pc[c]) =>
                \/ StateOf(pc'[c]) = Successor(StateOf(pc[c]))
                \/ /\ pc'[c] = "Failed"
                   /\ StateOf(pc[c]) \in {"ReadingRequest", "Writing"}
       ]_vars
    /\ [](\A c \in Conns :
            /\ pc[c] \in {"Idle", "ReadingRequest", "Parsing", "ResolvingTarget", "Probing",
                          "ReadingFile", "BuildingResponse", "WritingHeaders"} =>
                    wire[c] = NothingSent
            /\ pc[c] = "Failed" /\ response[c] = NoHeader => wire[c] = NothingSent
            /\ pc[c] = "WritingBody" => wire[c] = [headers |-> "full", body |-> "none"]
            /\ wire[c].body # "none" => wire[c].headers = "full"
            /\ pc[c] = "Done" => wire[c] = [headers |-> "full", body |-> "full"])
    /\ [][\A c \in Conns :
            pc[c] = "Failed" => pc'[c] = "Failed" /\ wire'[c] = wire[c]
       ]_vars

\* the header block was written, the body write failed half way, and the
\* handler ended
C15_Witness ==
    \E c \in Conns :
        /\ pc[c] = "Failed"
        /\ wire[c] = [headers |-> "full", body |-> "partial"]

\* everything that belongs to connection c
ConnState(c) ==
    <<pc[c], thread_config[c], buffer[c], nread[c], method[c], path[c],
      file_path[c], status_line[c], content[c], response[c], wire[c]>>

\* C16: the step in which one connection's handler fails changes nothing
\* of any other connection, of the store or of the configuration; a
\* handler fails only by an error of its own timeout setup, read or
\* writes; every connection that completes has received the whole
\* response its own request determines; and whatever accepts or handlers
\* failed before, the dispatcher accepts a connection on every free slot.
C16_FailuresIsolated ==
    /\ [][\A c \in Conns :
            pc'[c] = "Failed" /\ pc[c] # "Failed" =>
                /\ \A d \in Conns \ {c} : ConnState(d)' = ConnState(d)
                /\ fs' = fs
                /\ config' = config
                /\ \/ SetTimeoutErr(c)
                   \/ ReadErr(c)
                   \/ WriteHeadersErr(c)
                   \/ WriteBodyErr(c)
       ]_vars
    /\ [](\A d \in Conns :
            pc[d] = "Done" =>
                LET r == HandlerResponse(config, fs, Received(d))
                IN  /\ response[d] = r.header
                    /\ content[d] = r.body
                    /\ wire[d] = [headers |-> "full", body |-> "full"])
    /\ [](\A d \in Conns : pc[d] = "Idle" => ENABLED Accept(d))

\* after a failed accept and a failed handler, another connection was
\* accepted and received its whole response
C16_Witness ==
    \E c, d \in Conns :
        /\ c # d
        /\ accept_errors > 0
        /\ pc[c] = "Failed"
        /\ pc[d] = "Done"
        /\ wire[d] = [headers |-> "full", body |-> "full"]
        /\ response[d].status_line = OK200

\* C17: every spawned handler reaches Done or Failed and stays there with
\* nothing of its connection changing; it reads a request only once, as
\* its first step, never goes back to an earlier position, and writes the
\* header block and the body at most once each.
C17_HandlerTerminates ==
    /\ \A c \in Conns : (pc[c] = "ReadingRequest") ~> (pc[c] \in {"Done", "Failed"})
    /\ [][\A c \in Conns :
            /\ pc[c] \in {"Done", "Failed"} => ConnState(c)' = ConnState(c)
            /\ pc'[c] = "ReadingRequest" => pc[c] \in {"Idle", "ReadingRequest"}
            /\ <<buffer[c], nread[c]>>' # <<buffer[c], nread[c]>> =>
                    pc[c] = "ReadingRequest" /\ pc'[c] = "Parsing"
            /\ wire'[c].headers # wire[c].headers =>
                    pc[c] = "WritingHeaders" /\ wire[c] = NothingSent
            /\ wire'[c].body # wire[c].body =>
                    pc[c] = "WritingBody" /\ wire[c].body = "none"
            /\ pc'[c] # pc[c] /\ pc[c] # "Idle" => pc'[c] # "Idle"
       ]_vars

\* all handlers have ended, one of them in Done with its response written
\* and one in Failed
C17_Witness ==
    /\ \A c \in Conns : pc[c] \in {"Done", "Failed"}
    /\ \E c \in Conns : pc[c] = "Done" /\ wire[c] = [headers |-> "full", body |-> "full"]
    /\ \E c \in Conns : pc[c] = "Failed"

\* C18: the configuration never changes after load, it is the loader's
\* value for nebula.toml as it was at startup, and the snapshot of every
\* handler that was spawned equals it and never changes, whatever the
\* other handlers do.
C18_ConfigImmutable ==
    /\ [][config' = config]_vars
    /\ [](IF CompleteFile(cfgFile)
          THEN config = [f \in ConfigFields |-> cfgFile.doc[f]]
          ELSE config = DefaultConfig)
    /\ [](\A c \in Conns : pc[c] # "Idle" => thread_config[c] = config)
    /\ [][\A c \in Conns : pc[c] # "Idle" => thread_config'[c] = thread_config[c]]_vars

\* two handlers run side by side, one done and one still resolving, both
\* holding the configuration that was loaded from a complete nebula.toml
C18_Witness ==
    \E c, d \in Conns :
        /\ config # DefaultConfig
        /\ pc[c] = "Done"
        /\ pc[d] = "Probing"
        /\ thread_config[c] = config
        /\ thread_config[d] = config

====
